---- MODULE Spec2Model ----
(***************************************************************************)
(* Chunk decoders of spooky_bsp (src/chunk): ChunkHeader, Material,        *)
(* ModelPart / Vertex and World / Floor, each reading little-endian        *)
(* fields from a forward-only byte cursor.                                 *)
(*                                                                         *)
(* A byte stream is a sequence of bytes 0..255, a cursor position is the   *)
(* number of bytes consumed.  TLC integers are 32-bit signed, so a u32 (or *)
(* the bit pattern of an f32) is held as a natural number and the streams  *)
(* enumerated below keep the top bit of every u32/f32 they hold clear; an  *)
(* i32 is held exactly.                                                    *)
(***************************************************************************)
EXTENDS Integers, Sequences, FiniteSets, TLC

VARIABLES buf, call, pos, out, hashes

vars == <<buf, call, pos, out, hashes>>

(***************************************************************************)
(* Results of a read or of a decoder.  val is the decoded value, ctx the   *)
(* place the failure was raised from (not visible to the caller).          *)
(***************************************************************************)
NoValue == [none |-> TRUE]

Ok(p, v) == [status |-> "Ok", pos |-> p, val |-> v, ctx |-> NoValue]

Err(e, p, c) == [status |-> e, pos |-> p, val |-> NoValue, ctx |-> c]

IsOk(r) == r.status = "Ok"

\* `let x = r?; F(x)`: a failure of r is returned as it is
Then(r, F(_)) == IF IsOk(r) THEN F(r) ELSE r

(***************************************************************************)
(* Primitive reads (byteorder::ReadBytesExt over std::io::Read).           *)
(***************************************************************************)
ByteAt(b, p, k) == b[p + k + 1]

Low24(b, p) == ByteAt(b, p, 0) + 256 * ByteAt(b, p, 1) + 65536 * ByteAt(b, p, 2)

\* read_exact: fewer bytes left than asked for is ErrorKind::UnexpectedEof
Fits(b, p, w) == p + w <= Len(b)

read_u8(b, p) ==
    IF Fits(b, p, 1) THEN Ok(p + 1, ByteAt(b, p, 0))
    ELSE Err("UnexpectedEof", p, NoValue)

read_u16(b, p) ==
    IF Fits(b, p, 2) THEN Ok(p + 2, ByteAt(b, p, 0) + 256 * ByteAt(b, p, 1))
    ELSE Err("UnexpectedEof", p, NoValue)

read_u32(b, p) ==
    IF Fits(b, p, 4) THEN Ok(p + 4, Low24(b, p) + 16777216 * ByteAt(b, p, 3))
    ELSE Err("UnexpectedEof", p, NoValue)

read_i32(b, p) ==
    IF Fits(b, p, 4)
    THEN LET hi == ByteAt(b, p, 3)
         IN  Ok(p + 4, Low24(b, p) + 16777216 * (IF hi >= 128 THEN hi - 256 ELSE hi))
    ELSE Err("UnexpectedEof", p, NoValue)

\* an f32 is represented by its IEEE-754 bit pattern
read_f32(b, p) == read_u32(b, p)

ReadPrim(b, p, kind) ==
    CASE kind = "u8"  -> read_u8(b, p)
      [] kind = "u16" -> read_u16(b, p)
      [] kind = "u32" -> read_u32(b, p)
      [] kind = "i32" -> read_i32(b, p)
      [] kind = "f32" -> read_f32(b, p)

\* A run of reads `let a = read()?; let b = read()?; ...`: the first short
\* read ends the run, at the position the failing read started from.
RECURSIVE ReadAll(_, _, _)
ReadAll(b, p, kinds) ==
    IF kinds = <<>> THEN Ok(p, <<>>)
    ELSE Then(ReadPrim(b, p, Head(kinds)), LAMBDA r :
         Then(ReadAll(b, r.pos, Tail(kinds)), LAMBDA rest :
         Ok(rest.pos, <<r.val>> \o rest.val)))

(***************************************************************************)
(* Aggregates of the crate root (Vector3, Rgb, Rgba, BoundingBox, Matrix,  *)
(* the Decode impl of i32): their sources are not part of src/chunk, the   *)
(* layouts are those of the format description.                            *)
(***************************************************************************)
i32_decode(b, p) == read_i32(b, p)

Vector3_decode(b, p) == ReadAll(b, p, <<"f32", "f32", "f32">>)

\* four float channels
Rgba_decode(b, p) == ReadAll(b, p, <<"f32", "f32", "f32", "f32">>)

\* four byte channels; a channel byte c stands for the normalised c / 255
Rgba_decode_u8(b, p) == ReadAll(b, p, <<"u8", "u8", "u8", "u8">>)

Rgb_decode_u8(b, p) == ReadAll(b, p, <<"u8", "u8", "u8">>)

\* Rgb -> Rgba: alpha fully opaque
RgbIntoRgba(rgb) == rgb \o <<255>>

\* min corner then max corner
BoundingBox_decode(b, p) ==
    Then(Vector3_decode(b, p), LAMBDA lo :
    Then(Vector3_decode(b, lo.pos), LAMBDA hi :
    Ok(hi.pos, [min |-> lo.val, max |-> hi.val])))

\* 4x4 transform
Matrix_decode(b, p) == ReadAll(b, p, [i \in 1..16 |-> "f32"])

\* variant: no capacity is reserved (Vec::new()), so no request can overflow
CapacityOverflow_never(n) == FALSE

(***************************************************************************)
(* Vec::with_capacity(n as usize) for a signed n: the cast sign-extends,   *)
(* so a negative n asks for at least 2^64 - 2^31 elements, more than       *)
(* isize::MAX bytes for any element size >= 1: "capacity overflow" panic.  *)
(***************************************************************************)
CapacityOverflow(n) == n < 0

\* What the allocator answers to one request.  Whether a request is served
\* depends on the memory left to the process at that moment, which the
\* decoder does not control: every request of at least one byte may be
\* refused, each on its own.
Allocator == {"served", "refused"}

\* A decode call makes its requests one after another and ends at the first
\* one refused, so the allocator's part in a call is the one request it
\* refuses, if any: the site and the iteration of the loop around it.
NoRefusal == [site |-> "none", index |-> 0]

Request(site, index) == [site |-> site, index |-> index]

Answer(refusal, site, index) ==
    IF refusal = Request(site, index) THEN "refused" ELSE "served"

\* the allocation of n elements is refused: the process aborts ("memory
\* allocation of .. bytes failed"), nothing is returned.  No memory is asked
\* for an empty vector.
AllocRefused(n, mem) == n > 0 /\ mem = "refused"

\* Vec::with_capacity(n as usize) for elements of `size` bytes, reached with
\* the cursor at p: the panic, the abort (which names the request), or the
\* capacity reserved
with_capacity(n, size, mem, site, p) ==
    IF CapacityOverflow(n) THEN Err("CapacityOverflow", p, NoValue)
    ELSE IF AllocRefused(n, mem)
         THEN Err("AllocError", p, [at |-> site, count |-> n, size |-> size])
    ELSE Ok(p, n)

(***************************************************************************)
(* chunk/mod.rs                                                            *)
(***************************************************************************)
ChunkType ==
    (20002 :> "Textures") @@ (1010 :> "Materials") @@ (5 :> "MaterialObj") @@
    (1012 :> "World") @@ (1017 :> "AnimLib") @@ (20000 :> "Entities") @@
    (20001 :> "Entity") @@ (1029 :> "SpLights") @@ (1023 :> "Zones") @@
    (1021 :> "NavigationMesh") @@ (1020 :> "WpPoints") @@
    (1011 :> "SectorOctree") @@ (1019 :> "Occlusion") @@ (1024 :> "Area") @@
    (1005 :> "SkinObj") @@ (1001 :> "BoneObj") @@ (1018 :> "OcclusionMesh") @@
    (1000 :> "ModelGroup") @@ (1002 :> "SPMesh") @@ (1003 :> "Collision") @@
    (1004 :> "AtomicMesh") @@ (1006 :> "GLCamera") @@ (1 :> "GLProject") @@
    (1007 :> "LightObj") @@ (1026 :> "LinkEmm") @@ (1009 :> "LevelObj")

\* #[derive(TryFromPrimitive)]: Some(variant) or None
ChunkType_try_from(code) ==
    IF code \in DOMAIN ChunkType THEN <<ChunkType[code]>> ELSE <<>>

\* An error leaves ChunkHeader::decode as an eyre::Report (the return type
\* of Decode::decode).  Building the Report asks the allocator twice, for the
\* handler (8 bytes) and for the boxed Report (a header of 24 bytes and the
\* wrapped error, which takes 8 with its padding: 32 bytes); either request
\* refused, the process aborts and no Err is returned.  `of` is the error
\* being wrapped.
eyre_Report(status, p, refusal) ==
    IF Answer(refusal, "report_handler", 0) = "refused"
    THEN Err("AllocError", p,
             [at |-> "report_handler", count |-> 8, size |-> 1, of |-> status])
    ELSE IF Answer(refusal, "report", 0) = "refused"
    THEN Err("AllocError", p,
             [at |-> "report", count |-> 24 + 8, size |-> 1, of |-> status])
    ELSE Err(status, p, NoValue)

\* `?` on a result whose error is made a Report
Try(r, refusal) == IF IsOk(r) THEN r ELSE eyre_Report(r.status, r.pos, refusal)

\* variant: the second i32 taken as the version, the third as the size
ChunkHeader_decode_swapped(b, p, refusal) ==
    Then(Try(i32_decode(b, p), refusal), LAMBDA t :
    IF ChunkType_try_from(t.val) = <<>>
    THEN eyre_Report("UnrecognizedChunkType", t.pos, refusal)
    ELSE Then(Try(i32_decode(b, t.pos), refusal), LAMBDA version :
         Then(Try(i32_decode(b, version.pos), refusal), LAMBDA size :
         Ok(size.pos, [chunk_type |-> ChunkType_try_from(t.val)[1],
                       size |-> size.val,
                       version |-> version.val]))))

\* variant: all three fields read before the type code is converted
ChunkHeader_decode_eager(b, p, refusal) ==
    Then(Try(i32_decode(b, p), refusal), LAMBDA t :
    Then(Try(i32_decode(b, t.pos), refusal), LAMBDA size :
    Then(Try(i32_decode(b, size.pos), refusal), LAMBDA version :
    IF ChunkType_try_from(t.val) = <<>>
    THEN eyre_Report("UnrecognizedChunkType", version.pos, refusal)
    ELSE Ok(version.pos, [chunk_type |-> ChunkType_try_from(t.val)[1],
                          size |-> size.val,
                          version |-> version.val]))))

\* Struct-expression fields are evaluated in source order: type code and its
\* conversion first, then size, then version.  Each `?` hands on a Report.
ChunkHeader_decode(b, p, refusal) ==
    Then(Try(i32_decode(b, p), refusal), LAMBDA t :
    IF ChunkType_try_from(t.val) = <<>>
    THEN eyre_Report("UnrecognizedChunkType", t.pos, refusal)
    ELSE Then(Try(i32_decode(b, t.pos), refusal), LAMBDA size :
         Then(Try(i32_decode(b, size.pos), refusal), LAMBDA version :
         Ok(version.pos, [chunk_type |-> ChunkType_try_from(t.val)[1],
                          size |-> size.val,
                          version |-> version.val]))))

(***************************************************************************)
(* chunk/world.rs                                                          *)
(***************************************************************************)
\* variant: the occlusion reference is not read
Floor_decode_box_only(b, p) ==
    Then(BoundingBox_decode(b, p), LAMBDA ghost_camera :
    Ok(ghost_camera.pos, [occlusion_bsp |-> 0, ghost_camera |-> ghost_camera.val]))

Floor_decode(b, p) ==
    Then(read_u32(b, p), LAMBDA occlusion_bsp :
    Then(BoundingBox_decode(b, occlusion_bsp.pos), LAMBDA ghost_camera :
    Ok(ghost_camera.pos, [occlusion_bsp |-> occlusion_bsp.val,
                          ghost_camera |-> ghost_camera.val])))

\* for floor_index in 0 .. floor_count { floors.push(Floor::decode(reader)?) }
\* a failure raised inside a loop body notes the loop and the number of
\* elements already pushed
InLoop(r, at, done) ==
    IF IsOk(r) \/ r.status = "AllocError" THEN r
    ELSE Err(r.status, r.pos, [at |-> at, done |-> done])

\* variant: an inclusive range, 0 ..= floor_count
RECURSIVE FloorLoop_inclusive(_, _, _, _)
FloorLoop_inclusive(b, p, floor_count, floors) ==
    IF Len(floors) > floor_count THEN Ok(p, floors)
    ELSE Then(InLoop(Floor_decode(b, p), "Floor", Len(floors)), LAMBDA floor :
         FloorLoop_inclusive(b, floor.pos, floor_count, Append(floors, floor.val)))

RECURSIVE FloorLoop(_, _, _, _)
FloorLoop(b, p, floor_count, floors) ==
    IF Len(floors) >= floor_count THEN Ok(p, floors)
    ELSE Then(InLoop(Floor_decode(b, p), "Floor", Len(floors)), LAMBDA floor :
         FloorLoop(b, floor.pos, floor_count, Append(floors, floor.val)))

\* size_of::<Floor>(): a u32 and a BoundingBox of six f32
SizeOfFloor == 4 + 6 * 4

World_decode(b, p, mem) ==
    Then(read_u32(b, p), LAMBDA flags :
    Then(Rgb_decode_u8(b, flags.pos), LAMBDA ambient :
    Then(read_i32(b, ambient.pos), LAMBDA floor_count :
    Then(with_capacity(floor_count.val, SizeOfFloor, mem, "floors", floor_count.pos), LAMBDA capacity :
    Then(FloorLoop(b, capacity.pos, floor_count.val, <<>>), LAMBDA floors :
    Then(ReadAll(b, floors.pos, <<"i32", "i32", "i32", "i32", "i32">>), LAMBDA tail :
    Ok(tail.pos, [flags |-> flags.val,
                  ambient |-> RgbIntoRgba(ambient.val),
                  floors |-> floors.val,
                  zone_count |-> tail.val[1],
                  have_occlusion_bsp |-> tail.val[2] # 0,
                  have_nulls |-> tail.val[3] # 0,
                  have_waypoints |-> tail.val[4] # 0,
                  have_mesh |-> tail.val[5] # 0])))))))

(***************************************************************************)
(* chunk/model_part.rs                                                     *)
(***************************************************************************)
RECURSIVE BitAnd(_, _)
BitAnd(a, m) ==
    IF a = 0 \/ m = 0 THEN 0
    ELSE (a % 2) * (m % 2) + 2 * BitAnd(a \div 2, m \div 2)

HAS_VERTEX == 2^8

\* variant: the shift off by one
HAS_NORMAL_shifted == 2^10

HAS_NORMAL == 2^9

HAS_RECIPROCAL_HOMOGENEOUS_W == 2^10

HAS_DIFFUSE == 2^11

HAS_WEIGHT == 2^12

HAS_INDICES == 2^13

\* variant: a four-bit count
UV_COUNT_MASK_narrow == 2^4 - 1

UV_COUNT_MASK == 255

\* `if cond { Some(read?) } else { None }`: Some(v) is <<v>>, None is <<>>
OptRead(cond, r, p) ==
    IF cond THEN Then(r, LAMBDA x : Ok(x.pos, <<x.val>>))
    ELSE Ok(p, <<>>)

\* for i in 0..flags & UV_COUNT_MASK { uvs.push((read_f32?, read_f32?)) }
RECURSIVE UvLoop(_, _, _, _)
UvLoop(b, p, count, uvs) ==
    IF Len(uvs) >= count THEN Ok(p, uvs)
    ELSE Then(ReadAll(b, p, <<"f32", "f32">>), LAMBDA uv :
         UvLoop(b, uv.pos, count, Append(uvs, uv.val)))

\* uvs is reserved for flags & UV_COUNT_MASK pairs of f32 before the loop
Vertex_decode(b, p, flags, mem) ==
    Then(OptRead(BitAnd(flags, HAS_VERTEX) # 0, Vector3_decode(b, p), p),
         LAMBDA vertex :
    Then(OptRead(BitAnd(flags, HAS_NORMAL) # 0, Vector3_decode(b, vertex.pos), vertex.pos),
         LAMBDA normal :
    Then(OptRead(BitAnd(flags, HAS_RECIPROCAL_HOMOGENEOUS_W) # 0,
                 read_u32(b, normal.pos), normal.pos),
         LAMBDA reciprocal_homogeneous_w :
    Then(OptRead(BitAnd(flags, HAS_DIFFUSE) # 0,
                 Rgba_decode_u8(b, reciprocal_homogeneous_w.pos),
                 reciprocal_homogeneous_w.pos),
         LAMBDA diffuse :
    Then(OptRead(BitAnd(flags, HAS_WEIGHT) # 0, read_f32(b, diffuse.pos), diffuse.pos),
         LAMBDA weight :
    Then(OptRead(BitAnd(flags, HAS_INDICES) # 0,
                 ReadAll(b, weight.pos, <<"u16", "u16">>), weight.pos),
         LAMBDA indices :
    Then(with_capacity(BitAnd(flags, UV_COUNT_MASK), 2 * 4, mem, "uvs", indices.pos),
         LAMBDA capacity :
    Then(UvLoop(b, capacity.pos, BitAnd(flags, UV_COUNT_MASK), <<>>),
         LAMBDA uvs :
    Ok(uvs.pos, [vertex |-> vertex.val,
                 normal |-> normal.val,
                 reciprocal_homogeneous_w |-> reciprocal_homogeneous_w.val,
                 diffuse |-> diffuse.val,
                 weight |-> weight.val,
                 indices |-> indices.val,
                 uvs |-> uvs.val])))))))))

\* for vertex_index in 0..vertex_count { vertices.push(Vertex::decode(reader, flags)?) }
RECURSIVE VertexLoop(_, _, _, _, _, _)
VertexLoop(b, p, vertex_count, flags, refusal, vertices) ==
    IF Len(vertices) >= vertex_count THEN Ok(p, vertices)
    ELSE Then(InLoop(Vertex_decode(b, p, flags, Answer(refusal, "uvs", Len(vertices))),
                     "Vertex", Len(vertices)),
              LAMBDA vertex :
         VertexLoop(b, vertex.pos, vertex_count, flags, refusal,
                    Append(vertices, vertex.val)))

\* size_of::<Vertex>() as rustc lays it out for a 64-bit target: two
\* Option<Vector3> of 16 bytes, Option<u32> and Option<f32> of 8, Option<Rgba>
\* of 20, Option<(u16, u16)> of 6, the Vec of 24, rounded up to a multiple of 8
SizeOfVertex == ((2 * 16 + 2 * 8 + 20 + 6 + 24 + 7) \div 8) * 8

\* the 21 header values in stream order; vertex_count (the 9th) is read but
\* not stored in the ModelPart
ModelPartHeader ==
    <<"u32", "u32", "u32", "u32", "u32", "u32", "u32", "u32", "u32",
      "u16", "u16", "u16", "u32", "i32", "i32", "i32", "i32",
      "u32", "u32", "u32", "u32">>

\* variant: the vertices laid out by floor_flags
LayoutWord_floor_flags(h) == h[19]

\* Vertex::decode(reader, flags): the word read after floor_flags
LayoutWord(h) == h[20]

\* vertex_count is a u32: `as usize` extends it with zeros
ModelPart_decode(b, p, refusal) ==
    Then(ReadAll(b, p, ModelPartHeader), LAMBDA h :
    Then(with_capacity(h.val[9], SizeOfVertex, Answer(refusal, "vertices", 0),
                       "vertices", h.pos),
         LAMBDA capacity :
    Then(VertexLoop(b, capacity.pos, h.val[9], LayoutWord(h.val), refusal, <<>>),
         LAMBDA vertices :
    Ok(vertices.pos, [read_access_flags |-> h.val[1],
                      vertex_read_flags |-> h.val[2],
                      write_access_flags |-> h.val[3],
                      vertex_write_flags |-> h.val[4],
                      hint_flags |-> h.val[5],
                      constant_flags |-> h.val[6],
                      vertex_flags |-> h.val[7],
                      render_flags |-> h.val[8],
                      triangles_count |-> h.val[10],
                      strips_count |-> h.val[11],
                      strip_triangles_count |-> h.val[12],
                      material_hash |-> h.val[13],
                      triangle_index0 |-> h.val[14],
                      triangle_index1 |-> h.val[15],
                      vertex_index0 |-> h.val[16],
                      vertex_index1 |-> h.val[17],
                      layer_z |-> h.val[18],
                      floor_flags |-> h.val[19],
                      flags |-> h.val[20],
                      lighting_sid |-> h.val[21],
                      vertices |-> vertices.val]))))

(***************************************************************************)
(* chunk/material.rs                                                       *)
(***************************************************************************)
SLOTS == 5

\* flags, _name_hash, additive_lighting_model, colour, specular, power,
\* shading_mode, blend, blend_modes, alpha_test, alpha_test_mode,
\* depth_buffer_write, depth_buffer_comparison_mode, material_hash, owner,
\* colour_buffer_write
MaterialPrefix ==
    <<"u32", "u32", "i32",
      "f32", "f32", "f32", "f32",
      "f32", "f32", "f32", "f32",
      "f32", "i32", "i32",
      "i32", "i32",
      "i32",
      "i32", "f32",
      "i32", "i32", "u32", "u32", "u32">>

\* #[derive(Default)] MaterialTexture
DefaultTexture ==
    [uv_set |-> 0, name |-> <<>>, format |-> 0, address |-> 0,
     mask_name |-> <<>>, border_colour |-> <<0, 0, 0, 0>>, hash |-> 0]

\* for _ in 0..n { name.push(read_i32? as u8 as char) }
RECURSIVE ReadChars(_, _, _, _)
ReadChars(b, p, n, acc) ==
    IF Len(acc) >= n THEN Ok(p, acc)
    ELSE Then(read_i32(b, p), LAMBDA c :
         ReadChars(b, c.pos, n, Append(acc, c.val % 256)))

\* the body of the texture loop after `if name_length <= 0 { continue; }`
\* the UTF-8 bytes of the characters: `as u8 as char` gives U+0000..U+00FF,
\* one byte below 128 and two from 128 on
RECURSIVE Utf8Len(_)
Utf8Len(chars) ==
    IF chars = <<>> THEN 0
    ELSE (IF Head(chars) < 128 THEN 1 ELSE 2) + Utf8Len(Tail(chars))

\* String::reserve(n) on an empty String: n bytes, and no fewer than 8
StringCapacity(n) == IF n > 8 THEN n ELSE 8

\* chars.collect::<String>(): nothing is asked for no characters.  Otherwise
\* the String reserves room for one byte a character, and when the UTF-8
\* bytes outgrow that room it asks once more, for twice the room (which
\* holds two bytes a character).  Either request refused, the process aborts.
collect_String(chars, refusal, site, grow, i, p) ==
    IF chars = <<>> THEN Ok(p, chars)
    ELSE IF Answer(refusal, site, i) = "refused"
    THEN Err("AllocError", p,
             [at |-> site, count |-> StringCapacity(Len(chars)), size |-> 1])
    ELSE IF Utf8Len(chars) > StringCapacity(Len(chars))
            /\ Answer(refusal, grow, i) = "refused"
    THEN Err("AllocError", p,
             [at |-> grow, count |-> 2 * StringCapacity(Len(chars)), size |-> 1])
    ELSE Ok(p, chars)

\* The body of slot i.  name and mask_name are Vec<char>, 4 bytes an
\* element, each reserved for its declared length before its characters are
\* read and then collected into a String.
TextureBody(b, p, uv_set, name_length, i, refusal) ==
    Then(with_capacity(name_length, 4, Answer(refusal, "name", i), "name", p),
         LAMBDA name_capacity :
    Then(ReadChars(b, name_capacity.pos, name_length, <<>>), LAMBDA name_chars :
    Then(collect_String(name_chars.val, refusal, "name_string", "name_string_grow",
                        i, name_chars.pos),
         LAMBDA name :
    Then(ReadAll(b, name.pos, <<"i32", "i32", "i32">>), LAMBDA ffa :
    Then(read_i32(b, ffa.pos), LAMBDA mask_name_length :
    Then(with_capacity(mask_name_length.val, 4, Answer(refusal, "mask_name", i),
                       "mask_name", mask_name_length.pos),
         LAMBDA mask_capacity :
    Then(ReadChars(b, mask_capacity.pos, mask_name_length.val, <<>>),
         LAMBDA mask_chars :
    Then(collect_String(mask_chars.val, refusal, "mask_name_string",
                        "mask_name_string_grow", i, mask_chars.pos),
         LAMBDA mask_name :
    Then(Rgba_decode(b, mask_name.pos), LAMBDA border_colour :
    Then(read_u32(b, border_colour.pos), LAMBDA hash_ :
    Ok(hash_.pos, [uv_set |-> uv_set,
                   name |-> name.val,
                   format |-> ffa.val[1],
                   address |-> ffa.val[3],
                   mask_name |-> mask_name.val,
                   border_colour |-> border_colour.val,
                   hash |-> hash_.val])))))))))))

\* for i in 0..5: slot i of the source is index i + 1 here.  acc holds the
\* arrays uv_sets, texture_hashes and textures; an empty slot leaves them
\* as initialised (the `continue` comes before the three assignments).
RECURSIVE TextureLoop(_, _, _, _, _)
TextureLoop(b, p, i, refusal, acc) ==
    IF i > SLOTS THEN Ok(p, acc)
    ELSE Then(read_u32(b, p), LAMBDA uv_set :
         Then(read_i32(b, uv_set.pos), LAMBDA name_length :
         IF name_length.val <= 0
         THEN TextureLoop(b, name_length.pos, i + 1, refusal, acc)
         ELSE Then(TextureBody(b, name_length.pos, uv_set.val, name_length.val,
                               i, refusal),
                   LAMBDA texture :
              TextureLoop(b, texture.pos, i + 1, refusal,
                 [uv_sets |-> [acc.uv_sets EXCEPT ![i] = uv_set.val],
                  texture_hashes |-> [acc.texture_hashes EXCEPT ![i] = texture.val.hash],
                  textures |-> [acc.textures EXCEPT ![i] = texture.val]]))))

\* for i in 0..5 { use_matrix = read_i32? != 0; if use_matrix { Matrix::decode? } }
RECURSIVE MatrixLoop(_, _, _)
MatrixLoop(b, p, use_matrices) ==
    IF Len(use_matrices) >= SLOTS THEN Ok(p, use_matrices)
    ELSE Then(read_i32(b, p), LAMBDA use_matrix :
         IF use_matrix.val = 0
         THEN MatrixLoop(b, use_matrix.pos, Append(use_matrices, FALSE))
         ELSE Then(Matrix_decode(b, use_matrix.pos), LAMBDA matrix :
              MatrixLoop(b, matrix.pos, Append(use_matrices, TRUE))))

\* the arrays as declared before the texture loop
EmptySlots ==
    [uv_sets |-> [i \in 1..SLOTS |-> 0],
     texture_hashes |-> [i \in 1..SLOTS |-> 0],
     textures |-> [i \in 1..SLOTS |-> DefaultTexture]]

Material_decode(b, p, refusal) ==
    Then(ReadAll(b, p, MaterialPrefix), LAMBDA h :
    Then(TextureLoop(b, h.pos, 1, refusal, EmptySlots), LAMBDA t :
    Then(MatrixLoop(b, t.pos, <<>>), LAMBDA m :
    Then(ReadAll(b, m.pos, [i \in 1..SLOTS |-> "i32"]), LAMBDA generators :
    Then(ReadAll(b, generators.pos, <<"i32", "f32">>), LAMBDA e :
    Ok(e.pos,
       [material_hash |-> h.val[22],
        attributes |->
           [flags |-> h.val[1],
            additive_lighting_model |-> h.val[3] # 0,
            colour |-> SubSeq(h.val, 4, 7),
            specular |-> SubSeq(h.val, 8, 11),
            power |-> h.val[12],
            shading_mode |-> h.val[13],
            depth_buffer_write |-> h.val[20] # 0,
            depth_buffer_comparison_mode |-> h.val[21],
            blend |-> h.val[14] # 0,
            blend_modes |-> [source_mode |-> h.val[15],
                             destionation_mode |-> h.val[16]],
            alpha_test |-> h.val[17] # 0,
            alpha_test_mode |-> [comparision_function |-> h.val[18],
                                 reference |-> h.val[19]],
            owner |-> h.val[23],
            colour_buffer_write |-> h.val[24],
            use_matrices |-> m.val,
            generators |-> generators.val,
            uv_sets |-> t.val.uv_sets,
            texture_hashes |-> t.val.texture_hashes,
            envmap_type |-> e.val[1],
            planar_sheer_envmap_distance |-> e.val[2]],
        textures |-> t.val.textures]))))))

\* size_of::<Attributes>() under #[repr(C)], 4-byte alignment: each bool and
\* the [bool; 5] array are padded to the next multiple of 4
SizeOfAttributes ==
    4 + 4 + 16 + 16 + 4 + 4 + 4 + 4 + 4 + 8 + 4 + 8 + 4 + 4
    + 8 + 4 * SLOTS + 4 * SLOTS + 4 * SLOTS + 4 + 4

\* hash::hash is not part of src/chunk.  The model keeps the hashed bytes as
\* the value: two hashes are equal exactly when the hashed bytes are equal.
hash(bytes) == [hash_of |-> bytes]

\* get_hash(&self): `&self` is the address of the local `self: &Material`, so
\* the slice starts at the 8 bytes of that reference (the address of the
\* Material) and runs on for size_of::<Attributes>() bytes into whatever
\* memory follows the local (an out-of-bounds read).  self_ref is the little-
\* endian address, frame the memory that follows; the Material's fields are
\* not read.  The read is undefined behaviour: a build may compile the call
\* to one that returns the hash of those bytes or to one that does not return
\* (see GetHash).
get_hash(self_ref, frame) ==
    hash(SubSeq(self_ref \o frame, 1, SizeOfAttributes))

(***************************************************************************)
(* The streams and calls enumerated.                                       *)
(***************************************************************************)
MaxHeaderBuf == 14

MaxFloors == 3

MaxVertexBuf == 58

MaxVertices == 2

MaxHashes == 2

MaterialStep == 12

LE32(n) == <<n % 256, (n \div 256) % 256, (n \div 65536) % 256, (n \div 16777216) % 256>>

LE16(n) == <<n % 256, (n \div 256) % 256>>

RECURSIVE Cat(_)
Cat(seqs) == IF seqs = <<>> THEN <<>> ELSE Head(seqs) \o Cat(Tail(seqs))

Words(ns) == Cat([i \in 1..Len(ns) |-> LE32(ns[i])])

\* filler whose bytes differ at offsets less than 128 apart; all below 128
Pat(seed, n) == [i \in 1..n |-> (seed + 5 * i) % 128]

Prefixes(full, lens) == {SubSeq(full, 1, n) : n \in {m \in lens : m <= Len(full)}}

Call(d, f) == [decoder |-> d, flags |-> f]

\* chunk headers: every code of the enumeration and some that are none
OtherCodes ==
    {0, -1, 2, 4, 6, 999, 1008, 1013, 1022, 1025, 1027, 1028, 1030, 19999,
     20003, 999999, -1010, 1010 + 65536, 1010 + 16777216, 1 + 256}

HeaderTails == {<<0, 1>>, <<70000, 16909060>>, <<-2, -1>>}

HeaderInputs ==
    UNION {Prefixes(Words(<<t, st[1], st[2]>>) \o Pat(9, 2), 0..MaxHeaderBuf) :
            t \in DOMAIN ChunkType \cup OtherCodes, st \in HeaderTails}

\* worlds: a negative count, or n floors; cut at every length; and counts
\* far beyond what the stream holds
OversizedCounts == {1000000000, 2147483647}

WorldFull(floor_count, body) ==
    Words(<<66051>>) \o <<10, 20, 30>> \o Words(<<floor_count>>) \o Pat(3, body)

WorldInputs ==
    UNION ({Prefixes(WorldFull(n, 28 * n + 22), 0..(28 * n + 33)) : n \in 0..MaxFloors}
           \cup {Prefixes(WorldFull(n, 22), {11, 12, 30, 31, 33}) : n \in {-1, (-2147483647 - 1)}}
           \cup {Prefixes(WorldFull(n, 60), {11, 12, 38, 39, 71}) : n \in OversizedCounts})

\* vertices: every combination of the six presence bits with 0 or 2 UV
\* pairs, and some words with other bits set
FlagWords ==
    {256 * hi + lo : hi \in 0..63, lo \in {0, 2}}
    \cup {1, 255, 128, 16384, 16384 + 512 + 1, 1073741824 + 8192, 65536 + 256 + 3,
          2^14 * 3 + 2^9 + 2^11}

VertexInputs == {<<Call("Vertex", f), SubSeq(Pat(1, MaxVertexBuf), 1, n)>> :
                    f \in FlagWords, n \in 0..MaxVertexBuf}

\* model parts: the header with a count, a layout word, and vertex data
PartFlags == {0, 256, 512 + 1, 16128 + 2, 8192 + 2048}

PartFull(vertex_count, flags, body) ==
    Words(<<11, 12, 13, 14, 15, 16, 1024 + 3, 18, vertex_count>>)
    \o LE16(7) \o LE16(8) \o LE16(9)
    \o Words(<<77, -1, 5, 0, 9, 21, 4096 + 256 + 1, flags, 33>>)
    \o Pat(2, body)

PartInputs ==
    UNION ({Prefixes(PartFull(n, f, 56 * n + 1), 0..(79 + 56 * n)) :
               n \in 0..MaxVertices, f \in PartFlags}
           \cup {Prefixes(PartFull(n, f, 16), {77, 78, 89, 90, 94}) :
                   n \in OversizedCounts, f \in {256, 512 + 1}})

\* materials: per slot a UV-set index and a name length; names of one to three
\* characters below 128 and of six from 128 on, mask names one shorter or far
\* beyond the stream; transforms on some slots
SlotBytes(uv_set, name_length) ==
    Words(<<uv_set, name_length>>)
    \o (IF name_length <= 0 THEN <<>>
        ELSE IF name_length \in OversizedCounts THEN Pat(40, 6)
        ELSE IF name_length = 3
             THEN Words(<<321, 322, 323, 21, 22, 23, 1000000000>>) \o Pat(40, 6)
        ELSE Words([i \in 1..name_length |->
                       IF name_length >= 5 THEN 456 + i ELSE 320 + i])
             \o Words(<<21, 22, 23, name_length - 1>>)
             \o Words([i \in 1..(name_length - 1) |->
                          IF name_length >= 5 THEN 200 ELSE 66])
             \o Pat(40, 16) \o Words(<<9000 + uv_set>>))

MatrixBytes(use) == Words(<<use>>) \o (IF use = 0 THEN <<>> ELSE Pat(50, 64))

MaterialFull(uv, len, use) ==
    Cat(<<Pat(7, 12), Words(<<1>>), Pat(11, 36), Words(<<0, 3, 4, 1>>), Pat(13, 8),
          Words(<<0, 2, 48879, 6, 15>>),
          Cat([i \in 1..SLOTS |-> SlotBytes(uv[i], len[i])]),
          Cat([i \in 1..SLOTS |-> MatrixBytes(use[i])]),
          Words(<<1, 2, 3, 4, 5>>), Words(<<2>>), Pat(17, 4), Pat(19, 2)>>)

SlotUvSets == {<<0, 0, 0, 0, 0>>, <<1, 2, 3, 4, 5>>, <<0, 7, 0, 0, 300>>}

SlotLengths ==
    {<<0, 0, 0, 0, 0>>, <<-1, 0, -7, 0, (-2147483647 - 1)>>, <<1, 0, 0, 0, 0>>,
     <<0, 2, 0, 0, 1>>, <<0, 1000000000, 0, 0, 0>>, <<2, 3, 0, 0, 0>>,
     <<0, 0, 6, 0, 0>>}

SlotMatrices == {<<0, 0, 0, 0, 0>>, <<1, 0, 0, 0, 5>>}

MaterialCuts(full) ==
    {n \in 0..Len(full) : n % MaterialStep = 0 \/ n >= Len(full) - 3}

MaterialInputs ==
    UNION {Prefixes(MaterialFull(uv, len, use), MaterialCuts(MaterialFull(uv, len, use))) :
            uv \in SlotUvSets, len \in SlotLengths, use \in SlotMatrices}

Inputs ==
    {<<Call("ChunkHeader", 0), b>> : b \in HeaderInputs}
    \cup {<<Call("World", 0), b>> : b \in WorldInputs}
    \cup VertexInputs
    \cup {<<Call("ModelPart", 0), b>> : b \in PartInputs}
    \cup {<<Call("Material", 0), b>> : b \in MaterialInputs}

\* where a Material may live, and what may follow the `self` local in memory
SelfRefs == {<<16, 240, 255, 255, 253, 127, 0, 0>>, <<224, 241, 255, 255, 253, 127, 0, 0>>}

Frames == {[i \in 1..SizeOfAttributes |-> g] : g \in {0, 170}}

(***************************************************************************)
(* The state machine: one cursor over buf, one decoder call on it, and the *)
(* structural hashes taken of the decoded Material.  A call that aborts    *)
(* the process ("AllocError") or does not return ends the run.             *)
(***************************************************************************)
Pending == [status |-> "pending", val |-> NoValue, ctx |-> NoValue]

Init ==
    /\ \E inp \in Inputs : call = inp[1] /\ buf = inp[2]
    /\ pos = 0
    /\ out = Pending
    /\ hashes = <<>>

\* A decoder returns.  After a short read the cursor is where the failing
\* read began or at the end of the stream: read_exact leaves the number of
\* bytes consumed unspecified; so it is when the process is aborted while the
\* short read is made a Report.
ShortRead(r) ==
    \/ r.status = "UnexpectedEof"
    \/ /\ r.status = "AllocError"
       /\ "of" \in DOMAIN r.ctx
       /\ r.ctx.of = "UnexpectedEof"

Return(r) ==
    /\ out' = [status |-> r.status, val |-> r.val, ctx |-> r.ctx]
    /\ pos' \in (IF ShortRead(r) THEN {r.pos, Len(buf)} ELSE {r.pos})
    /\ UNCHANGED <<buf, call, hashes>>

\* the requests a ChunkHeader call can reach
HeaderRefusals == {NoRefusal, Request("report_handler", 0), Request("report", 0)}

\* the requests a ModelPart call over buf can reach (the header takes 78
\* bytes of the stream, a vertex with UV pairs 8 or more), and those of a
\* Material call
PartRefusals ==
    {NoRefusal, Request("vertices", 0)}
    \cup {Request("uvs", i) : i \in 0..((Len(buf) - 78) \div 8)}

MaterialRefusals ==
    {NoRefusal}
    \cup {Request(site, i) :
            site \in {"name", "name_string", "name_string_grow",
                      "mask_name", "mask_name_string", "mask_name_string_grow"},
            i \in 1..SLOTS}

ChunkHeaderDecode ==
    /\ call.decoder = "ChunkHeader" /\ out = Pending
    /\ \E refusal \in HeaderRefusals : Return(ChunkHeader_decode(buf, pos, refusal))

WorldDecode ==
    /\ call.decoder = "World" /\ out = Pending
    /\ \E mem \in Allocator : Return(World_decode(buf, pos, mem))

VertexDecode ==
    /\ call.decoder = "Vertex" /\ out = Pending
    /\ \E mem \in Allocator : Return(Vertex_decode(buf, pos, call.flags, mem))

ModelPartDecode ==
    /\ call.decoder = "ModelPart" /\ out = Pending
    /\ \E refusal \in PartRefusals : Return(ModelPart_decode(buf, pos, refusal))

MaterialDecode ==
    /\ call.decoder = "Material" /\ out = Pending
    /\ \E refusal \in MaterialRefusals : Return(Material_decode(buf, pos, refusal))

\* the last get_hash called has not returned
Hung == hashes # <<>> /\ ~hashes[Len(hashes)].returned

\* get_hash on the decoded Material.  Its out-of-bounds read being undefined
\* behaviour, the call returns a hash of the bytes at `&self`, or never
\* returns.
GetHash ==
    /\ call.decoder = "Material" /\ IsOk(out)
    /\ Len(hashes) < MaxHashes /\ ~Hung
    /\ \/ \E self_ref \in SelfRefs, frame \in Frames :
             hashes' = Append(hashes, [attributes |-> out.val.attributes,
                                       returned |-> TRUE,
                                       hash |-> get_hash(self_ref, frame)])
       \/ hashes' = Append(hashes, [attributes |-> out.val.attributes,
                                    returned |-> FALSE,
                                    hash |-> NoValue])
    /\ UNCHANGED <<buf, call, pos, out>>

\* the caller opens another, independent cursor over the same bytes
Reopen ==
    /\ out # Pending /\ out.status # "AllocError" /\ ~Hung
    /\ pos' = 0
    /\ out' = Pending
    /\ UNCHANGED <<buf, call, hashes>>

Next ==
    \/ ChunkHeaderDecode
    \/ WorldDecode
    \/ VertexDecode
    \/ ModelPartDecode
    \/ MaterialDecode
    \/ GetHash
    \/ Reopen

Spec == Init /\ [][Next]_vars

(***************************************************************************)
(* Properties.  Done: the call has returned.  Bit(f, k) is bit k of f.     *)
(***************************************************************************)
Done(d) == call.decoder = d /\ out # Pending

\* The call was aborted on a request of at most OrdinaryBytes: the process
\* had run out of memory.  The statements below about what a decode gives are
\* read on machines that serve such requests; a larger request may be
\* refused on any machine.
OrdinaryBytes == 2^20

Starved ==
    /\ out.status = "AllocError"
    /\ out.ctx.count <= OrdinaryBytes \div out.ctx.size

Bit(f, k) == (f \div 2^k) % 2

\* the stream holds the little-endian i32 n at byte offset off
HoldsI32(off, n) == Len(buf) >= off + 4 /\ SubSeq(buf, off + 1, off + 4) = LE32(n)

KnownCode == \E c \in DOMAIN ChunkType : HoldsI32(0, c)

\* C1: over a stream of at least 12 bytes ChunkHeader::decode succeeds exactly
\* when the first i32 is one of the 26 codes of ChunkType; then chunk_type is
\* the variant of that code (1010 is Materials) and size and version are the
\* second and third i32; otherwise it fails with the unrecognized-chunk-type
\* error and gives no header.
C1_HeaderDecode ==
    (Done("ChunkHeader") /\ Len(buf) >= 12 /\ ~Starved) =>
        /\ Cardinality(DOMAIN ChunkType) = 26
        /\ IsOk(out) <=> KnownCode
        /\ IsOk(out) =>
              /\ \E c \in DOMAIN ChunkType :
                    HoldsI32(0, c) /\ out.val.chunk_type = ChunkType[c]
              /\ HoldsI32(0, 1010) => out.val.chunk_type = "Materials"
              /\ HoldsI32(4, out.val.size)
              /\ HoldsI32(8, out.val.version)
        /\ ~IsOk(out) => out.status = "UnrecognizedChunkType" /\ out.val = NoValue
        /\ HoldsI32(0, 999999) => out.status = "UnrecognizedChunkType"

C1_Witness ==
    /\ Done("ChunkHeader") /\ IsOk(out)
    /\ HoldsI32(0, 1010) /\ out.val.chunk_type = "Materials"
    /\ out.val.size = 70000 /\ out.val.version = 16909060

\* C10: the type code is resolved before size and version are read: success
\* leaves the cursor at 12; an unknown code fails after exactly 4 bytes, also
\* when the stream holds nothing but the code; a known code with fewer than 12
\* bytes is a short read.
C10_HeaderOrder ==
    (Done("ChunkHeader") /\ ~Starved) =>
        /\ IsOk(out) => pos = 12
        /\ (Len(buf) >= 4 /\ ~KnownCode) =>
              out.status = "UnrecognizedChunkType" /\ pos = 4
        /\ (Len(buf) < 12 /\ (KnownCode \/ Len(buf) < 4)) =>
              out.status = "UnexpectedEof"
        /\ out.status = "UnrecognizedChunkType" => pos = 4

C10_Witness ==
    /\ Done("ChunkHeader") /\ Len(buf) = 4 /\ HoldsI32(0, 999999)
    /\ out.status = "UnrecognizedChunkType" /\ pos = 4

\* the bytes of the six optional fields a vertex of layout f holds, and the
\* offset of each field and of the UV pairs in the record
FieldBits == <<8, 9, 10, 11, 12, 13>>

FieldWidth == <<12, 12, 4, 4, 4, 4>>

RECURSIVE FieldOffset(_, _)
FieldOffset(f, i) ==
    IF i = 1 THEN 0
    ELSE FieldOffset(f, i - 1) + FieldWidth[i - 1] * Bit(f, FieldBits[i - 1])

UvOffset(f) == FieldOffset(f, 7)

VertexSize(f) == UvOffset(f) + 8 * (f % 256)

VertexFields(v) ==
    <<v.vertex, v.normal, v.reciprocal_homogeneous_w, v.diffuse, v.weight, v.indices>>

\* what field i holds when read at byte offset off of the stream
FieldAt(i, off) ==
    CASE i \in {1, 2} -> Vector3_decode(buf, off).val
      [] i = 3 -> read_u32(buf, off).val
      [] i = 4 -> Rgba_decode_u8(buf, off).val
      [] i = 5 -> read_f32(buf, off).val
      [] i = 6 -> <<read_u16(buf, off).val, read_u16(buf, off + 2).val>>

\* C4: each optional field of a decoded Vertex is present exactly when its own
\* bit of the flag word is set (position 8, normal 9, reciprocal homogeneous w
\* 10, diffuse 11, weight 12, index pair 13), whatever the other bits, and the
\* present fields lie in the stream in that order; a stream long enough for
\* the layout decodes.
C4_VertexFields ==
    (Done("Vertex") /\ ~Starved) =>
        /\ Len(buf) >= VertexSize(call.flags) => IsOk(out)
        /\ IsOk(out) =>
              \A i \in 1..6 :
                 /\ VertexFields(out.val)[i] # <<>> <=> Bit(call.flags, FieldBits[i]) = 1
                 /\ Bit(call.flags, FieldBits[i]) = 1 =>
                       VertexFields(out.val)[i] = <<FieldAt(i, FieldOffset(call.flags, i))>>

C4_Witness ==
    /\ Done("Vertex") /\ IsOk(out)
    /\ call.flags = 16384 + 512 + 1
    /\ out.val.normal # <<>> /\ out.val.vertex = <<>> /\ out.val.indices = <<>>

\* C5: a decoded Vertex has exactly f & 0xFF UV pairs, in stream order, after
\* the optional fields; none are read when f & 0xFF = 0; when the stream ends
\* before the last UV pair the decode fails with a short read and gives no
\* Vertex.
C5_VertexUvs ==
    (Done("Vertex") /\ ~Starved) =>
        LET f == call.flags
            n == f % 256
        IN  /\ IsOk(out) =>
                  /\ Len(out.val.uvs) = n
                  /\ \A i \in 1..n :
                        out.val.uvs[i] =
                           <<read_f32(buf, UvOffset(f) + 8 * (i - 1)).val,
                             read_f32(buf, UvOffset(f) + 8 * (i - 1) + 4).val>>
                  /\ pos = UvOffset(f) + 8 * n
                  /\ n = 0 => out.val.uvs = <<>>
            /\ Len(buf) < UvOffset(f) + 8 * n =>
                  out.status = "UnexpectedEof" /\ out.val = NoValue

C5_Witness ==
    /\ Done("Vertex") /\ out.status = "UnexpectedEof"
    /\ call.flags = 16128 + 2
    /\ Len(buf) >= UvOffset(call.flags) + 8 /\ Len(buf) < UvOffset(call.flags) + 16

\* the floor count a World stream declares
DeclaredFloors == read_i32(buf, 7).val

\* the Floor record, counted from 1, within which the stream ends
LastFloor == (Len(buf) - 11) \div 28 + 1

\* a World call has returned on a stream that declares n >= 1 floors and ends
\* within one of them
TruncatedInFloor ==
    /\ Done("World") /\ Len(buf) >= 11 /\ ~Starved
    /\ DeclaredFloors >= 1 /\ LastFloor <= DeclaredFloors

\* C6 as stated: when the stream of a World declaring n >= 1 floors ends
\* within its k-th Floor record, the decode fails with a short read raised in
\* the k-th Floor::decode, after k - 1 floors were read, and gives no World.
C6_WorldTruncatedAnyCount ==
    TruncatedInFloor =>
        /\ out.status = "UnexpectedEof"
        /\ out.ctx = [at |-> "Floor", done |-> LastFloor - 1]
        /\ out.val = NoValue

\* C6: when the stream of a World declaring n >= 1 floors ends within its k-th
\* Floor record, no World is given, and the decode fails with a short read
\* raised in the k-th Floor::decode, after k - 1 floors were read, unless the
\* allocator refuses the capacity for n floors, which aborts the process
\* before any Floor is read and on a machine that serves ordinary requests
\* happens only for an n of more than OrdinaryBytes / 28.
C6_WorldTruncated ==
    TruncatedInFloor =>
        /\ out.val = NoValue
        /\ \/ /\ out.status = "UnexpectedEof"
              /\ out.ctx = [at |-> "Floor", done |-> LastFloor - 1]
           \/ /\ out.status = "AllocError"
              /\ out.ctx = [at |-> "floors", count |-> DeclaredFloors,
                            size |-> SizeOfFloor]
              /\ pos = 11
              /\ DeclaredFloors > OrdinaryBytes \div SizeOfFloor

C6_Witness ==
    /\ Done("World") /\ Len(buf) = 11 + 28 * 3 - 1 /\ DeclaredFloors = 3
    /\ out.status = "UnexpectedEof"
    /\ out.ctx = [at |-> "Floor", done |-> 2]

\* C7: a World declaring n >= 0 floors whose stream holds them all decodes to
\* exactly n floors in stream order and consumes 31 + 28 n bytes; with n = 0
\* the floor sequence is empty and 31 bytes are consumed.
C7_WorldFloors ==
    (Done("World") /\ Len(buf) >= 11 /\ ~Starved) =>
        LET n == DeclaredFloors
        IN  /\ (n >= 0 /\ Len(buf) >= 31 /\ n <= (Len(buf) - 31) \div 28) => IsOk(out)
            /\ IsOk(out) =>
                  /\ Len(out.val.floors) = n
                  /\ pos = 31 + 28 * n
                  /\ \A i \in 1..n :
                        out.val.floors[i] = Floor_decode(buf, 11 + 28 * (i - 1)).val
                  /\ n = 0 => out.val.floors = <<>> /\ pos = 31

C7_Witness ==
    /\ Done("World") /\ IsOk(out) /\ HoldsI32(7, 0)
    /\ out.val.floors = <<>> /\ pos = 31

\* C8: a World declaring a negative floor count never decodes: the call ends
\* in a capacity (allocation-size) failure or a short read, with no World.
C8_NegativeFloorCount ==
    (Done("World") /\ Len(buf) >= 11 /\ DeclaredFloors < 0) =>
        /\ out.status \in {"CapacityOverflow", "UnexpectedEof"}
        /\ out.val = NoValue

C8_Witness ==
    /\ Done("World") /\ HoldsI32(7, -1) /\ Len(buf) >= 31
    /\ out.status = "CapacityOverflow"

\* C9: a decoded ModelPart has exactly vertex_count vertices (the 9th value
\* of the header), each the Vertex that the word read after floor_flags
\* lays out at its place in the stream, so all have the same fields present
\* and the same number of UV pairs.
C9_PartVertices ==
    (Done("ModelPart") /\ IsOk(out)) =>
        LET count == read_u32(buf, 32).val
            flags == read_u32(buf, 70).val
        IN  /\ Len(out.val.vertices) = count
            /\ out.val.flags = flags
            /\ \A i \in 1..count :
                  /\ out.val.vertices[i]
                        = Vertex_decode(buf, 78 + VertexSize(flags) * (i - 1),
                                        flags, "served").val
                  /\ Len(out.val.vertices[i].uvs) = flags % 256
                  /\ \A j \in 1..6 :
                        VertexFields(out.val.vertices[i])[j] # <<>>
                           <=> Bit(flags, FieldBits[j]) = 1
            /\ pos = 78 + VertexSize(flags) * count

C9_Witness ==
    /\ Done("ModelPart") /\ IsOk(out)
    /\ Len(out.val.vertices) = 2 /\ out.val.flags = 16128 + 2
    /\ out.val.floor_flags # out.val.flags /\ out.val.vertex_flags # out.val.flags

\* the five slots of a Material stream are all empty
AllSlotsEmpty ==
    /\ Len(buf) >= 96 + 8 * SLOTS
    /\ \A i \in 1..SLOTS : read_i32(buf, 96 + 8 * (i - 1) + 4).val <= 0

\* C2: a Material whose five texture slots all declare a name length <= 0
\* decodes with all textures absent and with uv_sets[i] the UV-set index read
\* for slot i.
C2_EmptySlotsKeepUvSets ==
    (Done("Material") /\ IsOk(out) /\ AllSlotsEmpty) =>
        /\ \A i \in 1..SLOTS : out.val.textures[i] = DefaultTexture
        /\ \A i \in 1..SLOTS :
              out.val.attributes.uv_sets[i] = read_u32(buf, 96 + 8 * (i - 1)).val

\* C3: the structural hash is a function of the Attributes value alone: two
\* hashes taken of Materials with equal attributes are equal.
C3_HashOfAttributes ==
    \A i, j \in DOMAIN hashes :
        /\ hashes[i].returned
        /\ hashes[i].attributes = hashes[j].attributes => hashes[i].hash = hashes[j].hash

====
